---- MODULE Spec2Model ----
(***************************************************************************)
(* Model of ptpc_driver.py: the band encoder (generate_full_bands), the    *)
(* status poll (check_status, wait_for_printer_ready), the chunked         *)
(* transmitter (safe_send) and the print session (main).                   *)
(*                                                                         *)
(* Python indices are 0-based; sequences here are 1-based, so the Python   *)
(* expression a[k] is written a[k + 1].                                    *)
(***************************************************************************)
EXTENDS Integers, Sequences, FiniteSets, TLC

VARIABLES
    pc,          \* the statement the program is at
    exc,         \* the exception that ended the session, or "none"
    ser,         \* the transport: "none", "open" or "closed"
    log,         \* every call made on the transport and every sleep, in order
    step_name,   \* argument of wait_for_printer_ready
    attempt,     \* loop variable of wait_for_printer_ready
    raw,         \* bytes returned by ser.read(32) in check_status
    response,    \* value returned by check_status
    report,      \* what check_status printed
    result,      \* value returned by wait_for_printer_ready
    canvas,      \* main's canvas
    bands,       \* main's bands
    band_i,      \* loop variable i of main's band loop
    data,        \* argument of safe_send
    chunk_size,  \* argument of safe_send
    send_i,      \* loop variable i of safe_send
    call         \* a single call of parse_status_byte or of the header code

vars == <<pc, exc, ser, log, step_name, attempt, raw, response, report, result,
          canvas, bands, band_i, data, chunk_size, send_i, call>>

----------------------------------------------------------------------------
(* Bounds of the model *)

\* largest canvas width given to the encoder on its own
MaxWidth == 2
\* largest buffer length and chunk size given to safe_send on its own
MaxLen == 7
MaxChunk == 4

----------------------------------------------------------------------------
(* Program constants *)

BAND_HEIGHT == 24
SAFE_PRINT_HEIGHT == 120
num_bands == 5
max_attempts == 5
STATUS_LEN == 32
DEFAULT_CHUNK == 32

None == "None"

NoCall == [fn |-> "none", arg |-> 0, map |-> 0, out |-> <<>>, done |-> FALSE]

----------------------------------------------------------------------------
(* Integer bit operations, as Python computes them on non-negative ints *)

RECURSIVE BitAnd(_, _)
BitAnd(a, b) ==
    IF a = 0 \/ b = 0 THEN 0
    ELSE (a % 2) * (b % 2) + 2 * BitAnd(a \div 2, b \div 2)

RECURSIVE BitOr(_, _)
BitOr(a, b) ==
    IF a = 0 THEN b
    ELSE IF b = 0 THEN a
    ELSE (IF a % 2 = 1 \/ b % 2 = 1 THEN 1 ELSE 0)
         + 2 * BitOr(a \div 2, b \div 2)

ShiftLeft(a, n) == a * (2 ^ n)
ShiftRight(a, n) == a \div (2 ^ n)

RECURSIVE Flatten(_)
Flatten(ss) == IF ss = <<>> THEN <<>> ELSE Head(ss) \o Flatten(Tail(ss))

----------------------------------------------------------------------------
(* generate_full_bands *)

\* lines 98-101: the loop over bit_offset, from bit_offset on
RECURSIVE column_bits_from(_, _, _, _, _)
column_bits_from(cv, start_row, x, bit_offset, col_bits) ==
    IF bit_offset >= BAND_HEIGHT THEN col_bits
    ELSE IF start_row + bit_offset < Len(cv)
            /\ cv[start_row + bit_offset + 1][x + 1] # 0
         THEN column_bits_from(cv, start_row, x, bit_offset + 1,
                  BitOr(col_bits, ShiftLeft(1, 23 - bit_offset)))
         ELSE column_bits_from(cv, start_row, x, bit_offset + 1, col_bits)

\* variant: the band starts one row too low
column_bits_off_by_one(cv, start_row, x) ==
    column_bits_from(cv, start_row + 1, x, 0, 0)

\* lines 97-101: the 24-bit column word of column x of the band at start_row
column_bits(cv, start_row, x) == column_bits_from(cv, start_row, x, 0, 0)

\* variant: the middle byte is not emitted
column_bytes_two(col_bits) ==
    << BitAnd(ShiftRight(col_bits, 16), 255), BitAnd(col_bits, 255) >>

\* lines 102-106: the three bytes appended for one column word
column_bytes(col_bits) ==
    << BitAnd(ShiftRight(col_bits, 16), 255),
       BitAnd(ShiftRight(col_bits, 8), 255),
       BitAnd(col_bits, 255) >>

\* lines 94-106: the byte buffer of one band
band_bytes(cv, band_idx) ==
    LET width == Len(cv[1])
        start_row == band_idx * BAND_HEIGHT
    IN  Flatten([k \in 1..width |->
                    column_bytes(column_bits(cv, start_row, k - 1))])

\* variant: the number of bands follows the canvas height
generate_full_bands_by_height(cv) ==
    LET width == Len(cv[1])
    IN  [k \in 1..((Len(cv) + BAND_HEIGHT - 1) \div BAND_HEIGHT) |->
            [band_data |-> band_bytes(cv, k - 1), width |-> width]]

\* lines 84-108
generate_full_bands(cv) ==
    LET width == Len(cv[1])
    IN  [k \in 1..num_bands |->
            [band_data |-> band_bytes(cv, k - 1), width |-> width]]

----------------------------------------------------------------------------
(* Canvases: families of binary matrices, rows first *)

Ink(p, y, x) ==
    CASE p.kind = "pixel" -> IF y = p.y /\ x = p.x THEN 1 ELSE 0
      [] p.kind = "hole"  -> IF y = p.y /\ x = p.x THEN 0 ELSE 1
      [] p.kind = "band"  -> IF y \div BAND_HEIGHT = p.y THEN 1 ELSE 0

MkCanvas(h, w, p) == [r \in 1..h |-> [c \in 1..w |-> Ink(p, r - 1, c - 1)]]

Patterns(h, w) ==
    [kind : {"pixel", "hole"}, y : 0..(h - 1), x : 0..(w - 1)]
    \cup [kind : {"band"}, y : 0..num_bands, x : {0}]

EncHeights ==
    {1, SAFE_PRINT_HEIGHT - 1, SAFE_PRINT_HEIGHT, SAFE_PRINT_HEIGHT + 1,
     SAFE_PRINT_HEIGHT + BAND_HEIGHT}

EncCanvases ==
    UNION { UNION { { MkCanvas(h, w, p) : p \in Patterns(h, w) }
                    : w \in 0..MaxWidth } : h \in EncHeights }
    \cup { MkCanvas(SAFE_PRINT_HEIGHT, 48, [kind |-> "band", y |-> 0, x |-> 0]) }

----------------------------------------------------------------------------
(* The transport log *)

Ev(op, bytes, ms) == [op |-> op, data |-> bytes, ms |-> ms]
Write(bytes) == Ev("write", bytes, 0)
Flush == Ev("flush", <<>>, 0)
Sleep(ms) == Ev("sleep", <<>>, ms)
ResetInput == Ev("reset_input_buffer", <<>>, 0)
Read == Ev("read", <<>>, 0)
Close == Ev("close", <<>>, 0)

\* the byte strings written, in order
IsWrite(e) == e.op = "write"
Writes(l) ==
    LET w == SelectSeq(l, IsWrite)
    IN  [k \in 1..Len(w) |-> w[k].data]

CMD_INIT == <<27, 64>>
CMD_STATUS == <<27, 105, 83>>
CMD_MODE == <<27, 105, 77, 0>>
CMD_CRLF == <<13, 10>>
CMD_PRINT == <<12>>

----------------------------------------------------------------------------
(* safe_send *)

Min(a, b) == IF a < b THEN a ELSE b

\* line 22: data[i:i+chunk_size]
chunk_at(d, i, size) == SubSeq(d, i + 1, Min(i + size, Len(d)))

\* variant: a final chunk shorter than chunk_size is not sent
safe_send_loop_full_only ==
    /\ pc = "send_loop"
    /\ pc' = IF send_i + chunk_size <= Len(data) THEN "send_write" ELSE "send_ret"
    /\ UNCHANGED call
    /\ UNCHANGED <<exc, ser, log, step_name, attempt, raw, response, report,
                   result, canvas, bands, band_i, data, chunk_size, send_i>>

\* line 21: for i in range(0, total_len, chunk_size)
safe_send_loop ==
    /\ pc = "send_loop"
    /\ pc' = IF send_i < Len(data) THEN "send_write" ELSE "send_ret"
    /\ UNCHANGED call
    /\ UNCHANGED <<exc, ser, log, step_name, attempt, raw, response, report,
                   result, canvas, bands, band_i, data, chunk_size, send_i>>

\* lines 22-23
safe_send_write ==
    /\ pc = "send_write"
    /\ log' = Append(log, Write(chunk_at(data, send_i, chunk_size)))
    /\ pc' = "send_flush"
    /\ UNCHANGED call
    /\ UNCHANGED <<exc, ser, step_name, attempt, raw, response, report,
                   result, canvas, bands, band_i, data, chunk_size, send_i>>

\* line 24
safe_send_flush ==
    /\ pc = "send_flush"
    /\ log' = Append(log, Flush)
    /\ pc' = "send_sleep"
    /\ UNCHANGED call
    /\ UNCHANGED <<exc, ser, step_name, attempt, raw, response, report,
                   result, canvas, bands, band_i, data, chunk_size, send_i>>

\* line 25, and the step of the range
safe_send_sleep ==
    /\ pc = "send_sleep"
    /\ log' = Append(log, Sleep(20))
    /\ send_i' = send_i + chunk_size
    /\ pc' = "send_loop"
    /\ UNCHANGED call
    /\ UNCHANGED <<exc, ser, step_name, attempt, raw, response, report,
                   result, canvas, bands, band_i, data, chunk_size>>

\* variant: the failed chunk is written again
safe_send_raise_retry ==
    /\ pc \in {"send_write", "send_flush"}
    /\ pc' = "send_write"
    /\ exc' = "SerialException"
    /\ UNCHANGED call
    /\ UNCHANGED <<ser, log, step_name, attempt, raw, response, report,
                   result, canvas, bands, band_i, data, chunk_size, send_i>>

\* ser.write or ser.flush raises: the exception leaves safe_send
safe_send_raise ==
    /\ pc \in {"send_write", "send_flush"}
    /\ pc' = "crashed"
    /\ exc' = "SerialException"
    /\ UNCHANGED call
    /\ UNCHANGED <<ser, log, step_name, attempt, raw, response, report,
                   result, canvas, bands, band_i, data, chunk_size, send_i>>

----------------------------------------------------------------------------
(* check_status *)

err1_map == << <<0, "NO TAPE">>, <<1, "TAPE END">>, <<2, "CUTTER JAM">> >>
err2_map == << <<0, "TAPE CHANGE ERR">>, <<1, "PRINT BUFFER FULL">>,
               <<2, "TRANSMISSION ERR">>, <<3, "RX BUFFER FULL">> >>

\* variant: the byte is shifted but the low bit is not isolated
parse_status_byte_shift_only(byte_val, mapping) ==
    LET Hit(item) == ShiftRight(byte_val, item[1]) # 0
        hits == SelectSeq(mapping, Hit)
    IN  [k \in 1..Len(hits) |-> hits[k][2]]

\* line 28: the descriptions, in map order, of the bits set in byte_val
parse_status_byte(byte_val, mapping) ==
    LET Hit(item) == BitAnd(byte_val, ShiftLeft(1, item[1])) # 0
        hits == SelectSeq(mapping, Hit)
    IN  [k \in 1..Len(hits) |-> hits[k][2]]

NoneResponse == [is_none |-> TRUE, bytes |-> <<>>]
SomeResponse(bytes) == [is_none |-> FALSE, bytes |-> bytes]

NoReport == [kind |-> "none", len |-> 0, errors |-> <<>>, tape |-> 0]

\* lines 36-52: what check_status prints and returns for the bytes read
check_status_report(r) ==
    IF Len(r) # STATUS_LEN
    THEN [kind |-> "incomplete", len |-> Len(r), errors |-> <<>>, tape |-> 0]
    ELSE [kind |-> "status", len |-> Len(r),
          errors |-> parse_status_byte(r[8 + 1], err1_map)
                     \o parse_status_byte(r[9 + 1], err2_map),
          tape |-> r[10 + 1]]

\* variant: only an empty answer is rejected
check_status_return_nonempty(r) ==
    IF Len(r) = 0 THEN NoneResponse ELSE SomeResponse(r)

check_status_return(r) ==
    IF Len(r) # STATUS_LEN THEN NoneResponse ELSE SomeResponse(r)

\* a device answer of len bytes with the given bytes at offsets 8, 9, 10
MkResp(len, e1, e2, tw) ==
    [k \in 1..len |-> IF k = 9 THEN e1 ELSE IF k = 10 THEN e2
                      ELSE IF k = 11 THEN tw ELSE 0]

StatusBytes ==
    { <<e, 0>> : e \in {0, 1, 2, 4, 8} }
    \cup { <<0, e>> : e \in {1, 2, 4, 8, 16} }
    \cup { <<1, 8>>, <<1, 2>>, <<8, 16>>, <<0, 10>>, <<7, 13>>, <<255, 255>>,
             <<248, 240>> }

\* ser.read(32) returns at most 32 bytes, fewer on timeout
Responses ==
    { MkResp(STATUS_LEN, s[1], s[2], 24) : s \in StatusBytes }
    \cup { MkResp(0, 0, 0, 0), MkResp(31, 0, 0, 24), MkResp(10, 0, 8, 0) }

\* lines 31-33
check_status_request ==
    /\ pc = "status_request"
    /\ log' = log \o << ResetInput, Write(CMD_STATUS), Sleep(200) >>
    /\ pc' = "status_read"
    /\ UNCHANGED call
    /\ UNCHANGED <<exc, ser, step_name, attempt, raw, response, report,
                   result, canvas, bands, band_i, data, chunk_size, send_i>>

\* lines 34-52
check_status_read ==
    /\ pc = "status_read"
    /\ \E r \in Responses :
          /\ raw' = r
          /\ report' = check_status_report(r)
          /\ response' = check_status_return(r)
    /\ log' = Append(log, Read)
    /\ pc' = "wait_decide"
    /\ UNCHANGED call
    /\ UNCHANGED <<exc, ser, step_name, attempt, result, canvas, bands,
                   band_i, data, chunk_size, send_i>>

\* reset_input_buffer, write or read raises
check_status_raise ==
    /\ pc \in {"status_request", "status_read"}
    /\ pc' = "crashed"
    /\ exc' = "SerialException"
    /\ UNCHANGED call
    /\ UNCHANGED <<ser, log, step_name, attempt, raw, response, report,
                   result, canvas, bands, band_i, data, chunk_size, send_i>>

----------------------------------------------------------------------------
(* wait_for_printer_ready *)

\* variant: only error byte 8 is tested
status_clear_byte8(resp) == resp.bytes[8 + 1] = 0

\* variant: only the named error bits are tested
status_clear_named_bits(resp) ==
    BitAnd(resp.bytes[8 + 1], 7) = 0 /\ BitAnd(resp.bytes[9 + 1], 15) = 0

\* line 58
status_clear(resp) == resp.bytes[8 + 1] = 0 /\ resp.bytes[9 + 1] = 0

\* line 61
status_abort(resp) == BitAnd(resp.bytes[9 + 1], 2) # 0

\* variant: one attempt too many
wait_loop_six ==
    /\ pc = "wait_loop"
    /\ IF attempt <= max_attempts
       THEN pc' = "status_request" /\ UNCHANGED result
       ELSE pc' = "wait_ret" /\ result' = "False"
    /\ UNCHANGED call
    /\ UNCHANGED <<exc, ser, log, step_name, attempt, raw, response, report,
                   canvas, bands, band_i, data, chunk_size, send_i>>

\* line 55, and line 65 when the range is exhausted
wait_loop ==
    /\ pc = "wait_loop"
    /\ IF attempt < max_attempts
       THEN pc' = "status_request" /\ UNCHANGED result
       ELSE pc' = "wait_ret" /\ result' = "False"
    /\ UNCHANGED call
    /\ UNCHANGED <<exc, ser, log, step_name, attempt, raw, response, report,
                   canvas, bands, band_i, data, chunk_size, send_i>>

\* lines 57-63
wait_decide ==
    /\ pc = "wait_decide"
    /\ IF ~response.is_none /\ status_clear(response)
       THEN pc' = "wait_ret" /\ result' = "True"
       ELSE IF ~response.is_none /\ status_abort(response)
       THEN pc' = "wait_ret" /\ result' = "False"
       ELSE pc' = "wait_sleep" /\ UNCHANGED result
    /\ UNCHANGED call
    /\ UNCHANGED <<exc, ser, log, step_name, attempt, raw, response, report,
                   canvas, bands, band_i, data, chunk_size, send_i>>

\* line 64, and the step of the range
wait_sleep ==
    /\ pc = "wait_sleep"
    /\ log' = Append(log, Sleep(500))
    /\ attempt' = attempt + 1
    /\ pc' = "wait_loop"
    /\ UNCHANGED call
    /\ UNCHANGED <<exc, ser, step_name, raw, response, report, result,
                   canvas, bands, band_i, data, chunk_size, send_i>>

----------------------------------------------------------------------------
(* load_bitmap_to_canvas *)

\* the image after convert("1") and the resize to SAFE_PRINT_HEIGHT rows:
\* pixel values 0 or 255, rows first
MkImage(w, p) ==
    [r \in 1..SAFE_PRINT_HEIGHT |-> [c \in 1..w |-> 255 * Ink(p, r - 1, c - 1)]]

\* 11 columns give 33 bytes per band: one full chunk and one short chunk
MainWidths == {1, 11}

MainImages ==
    UNION { { MkImage(w, [kind |-> "band", y |-> 0, x |-> 0]),
              MkImage(w, [kind |-> "pixel", y |-> 2 * BAND_HEIGHT + 3, x |-> w - 1]),
              MkImage(w, [kind |-> "hole", y |-> 0, x |-> 0]) } : w \in MainWidths }

\* lines 77-82: ink (1) where the pixel is 0
load_bitmap_to_canvas(img) ==
    [r \in 1..Len(img) |-> [c \in 1..Len(img[1]) |->
        IF img[r][c] # 0 THEN 0 ELSE 1]]

----------------------------------------------------------------------------
(* main *)

\* variant: the width bytes are sent high byte first
band_header_high_first(width) ==
    << 27, 42, 39, BitAnd(ShiftRight(width, 8), 255), BitAnd(width, 255) >>

\* variant: the high width byte is not masked
band_header_unmasked(width) ==
    << 27, 42, 39, BitAnd(width, 255), ShiftRight(width, 8) >>

\* lines 145-149
band_header(width) ==
    << 27, 42, 39, BitAnd(width, 255), BitAnd(ShiftRight(width, 8), 255) >>

\* lines 112-118
main_open ==
    /\ pc = "open"
    /\ ser' = "open"
    /\ pc' = "initialize"
    /\ UNCHANGED call
    /\ UNCHANGED <<exc, log, step_name, attempt, raw, response, report,
                   result, canvas, bands, band_i, data, chunk_size, send_i>>

\* lines 123-127: reset the device, settle, call wait_for_printer_ready
main_initialize ==
    /\ pc = "initialize"
    /\ log' = log \o << Write(CMD_INIT), Sleep(500) >>
    /\ step_name' = "After Init"
    /\ attempt' = 0
    /\ pc' = "wait_loop"
    /\ UNCHANGED call
    /\ UNCHANGED <<exc, ser, raw, response, report, result, canvas, bands,
                   band_i, data, chunk_size, send_i>>

\* variant: the result of the wait is ignored
main_after_init_ignored ==
    /\ pc = "wait_ret"
    /\ step_name = "After Init"
    /\ pc' = "set_mode"
    /\ UNCHANGED call
    /\ UNCHANGED <<exc, ser, log, step_name, attempt, raw, response, report,
                   result, canvas, bands, band_i, data, chunk_size, send_i>>

\* lines 127-129
main_after_init ==
    /\ pc = "wait_ret"
    /\ step_name = "After Init"
    /\ pc' = IF result # "True" THEN "aborted" ELSE "set_mode"
    /\ UNCHANGED call
    /\ UNCHANGED <<exc, ser, log, step_name, attempt, raw, response, report,
                   result, canvas, bands, band_i, data, chunk_size, send_i>>

\* variant: the mode-set carries the auto-cut flag
main_set_mode_autocut ==
    /\ pc = "set_mode"
    /\ log' = log \o << Write(<<27, 105, 77, 64>>), Sleep(100) >>
    /\ pc' = "load"
    /\ UNCHANGED call
    /\ UNCHANGED <<exc, ser, step_name, attempt, raw, response, report,
                   result, canvas, bands, band_i, data, chunk_size, send_i>>

\* lines 132-133
main_set_mode ==
    /\ pc = "set_mode"
    /\ log' = log \o << Write(CMD_MODE), Sleep(100) >>
    /\ pc' = "load"
    /\ UNCHANGED call
    /\ UNCHANGED <<exc, ser, step_name, attempt, raw, response, report,
                   result, canvas, bands, band_i, data, chunk_size, send_i>>

\* line 136
main_load ==
    /\ pc = "load"
    /\ \E img \in MainImages : canvas' = load_bitmap_to_canvas(img)
    /\ pc' = "generate"
    /\ UNCHANGED call
    /\ UNCHANGED <<exc, ser, log, step_name, attempt, raw, response, report,
                   result, bands, band_i, data, chunk_size, send_i>>

\* line 136 when Image.open raises
main_load_raise ==
    /\ pc = "load"
    /\ pc' = "crashed"
    /\ exc' = "ImageError"
    /\ UNCHANGED call
    /\ UNCHANGED <<ser, log, step_name, attempt, raw, response, report,
                   result, canvas, bands, band_i, data, chunk_size, send_i>>

\* line 137
main_generate ==
    /\ pc = "generate"
    /\ bands' = generate_full_bands(canvas)
    /\ band_i' = 0
    /\ pc' = "band_loop"
    /\ UNCHANGED call
    /\ UNCHANGED <<exc, ser, log, step_name, attempt, raw, response, report,
                   result, canvas, data, chunk_size, send_i>>

\* variant: the last band is not sent
main_band_loop_short ==
    /\ pc = "band_loop"
    /\ pc' = IF band_i < Len(bands) - 1 THEN "band_header" ELSE "trigger"
    /\ UNCHANGED call
    /\ UNCHANGED <<exc, ser, log, step_name, attempt, raw, response, report,
                   result, canvas, bands, band_i, data, chunk_size, send_i>>

\* line 142
main_band_loop ==
    /\ pc = "band_loop"
    /\ pc' = IF band_i < Len(bands) THEN "band_header" ELSE "trigger"
    /\ UNCHANGED call
    /\ UNCHANGED <<exc, ser, log, step_name, attempt, raw, response, report,
                   result, canvas, bands, band_i, data, chunk_size, send_i>>

\* lines 145-150: the header, then the call of safe_send
main_band_header ==
    /\ pc = "band_header"
    /\ log' = Append(log, Write(band_header(bands[band_i + 1].width)))
    /\ data' = bands[band_i + 1].band_data
    /\ chunk_size' = DEFAULT_CHUNK
    /\ send_i' = 0
    /\ pc' = "send_loop"
    /\ UNCHANGED call
    /\ UNCHANGED <<exc, ser, step_name, attempt, raw, response, report,
                   result, canvas, bands, band_i>>

\* lines 153-154, and the step of the enumeration
main_band_end ==
    /\ pc = "send_ret"
    /\ log' = log \o << Write(CMD_CRLF), Sleep(100) >>
    /\ band_i' = band_i + 1
    /\ pc' = "band_loop"
    /\ UNCHANGED call
    /\ UNCHANGED <<exc, ser, step_name, attempt, raw, response, report,
                   result, canvas, bands, data, chunk_size, send_i>>

\* variant: the final call of wait_for_printer_ready is left out
main_trigger_no_check ==
    /\ pc = "trigger"
    /\ log' = log \o << Write(CMD_PRINT), Sleep(2000) >>
    /\ step_name' = "Final Check"
    /\ attempt' = 0
    /\ pc' = "wait_ret"
    /\ UNCHANGED call
    /\ UNCHANGED <<exc, ser, raw, response, report, result, canvas, bands,
                   band_i, data, chunk_size, send_i>>

\* lines 157-161: the trigger, the settle delay, the final call
main_trigger ==
    /\ pc = "trigger"
    /\ log' = log \o << Write(CMD_PRINT), Sleep(2000) >>
    /\ step_name' = "Final Check"
    /\ attempt' = 0
    /\ pc' = "wait_loop"
    /\ UNCHANGED call
    /\ UNCHANGED <<exc, ser, raw, response, report, result, canvas, bands,
                   band_i, data, chunk_size, send_i>>

\* lines 161-163: the result of the final call is ignored
main_close ==
    /\ pc = "wait_ret"
    /\ step_name = "Final Check"
    /\ log' = Append(log, Close)
    /\ ser' = "closed"
    /\ pc' = "done"
    /\ UNCHANGED call
    /\ UNCHANGED <<exc, step_name, attempt, raw, response, report, result,
                   canvas, bands, band_i, data, chunk_size, send_i>>

\* lines 165-166: serial.Serial, ser.write or ser.close raises in main
main_raise ==
    /\ \/ pc \in {"open", "initialize", "set_mode", "band_header", "send_ret",
                  "trigger"}
       \/ pc = "wait_ret" /\ step_name = "Final Check"
    /\ pc' = "crashed"
    /\ exc' = "SerialException"
    /\ UNCHANGED call
    /\ UNCHANGED <<ser, log, step_name, attempt, raw, response, report,
                   result, canvas, bands, band_i, data, chunk_size, send_i>>

----------------------------------------------------------------------------
(* The print session *)

Init ==
    /\ pc = "open"
    /\ exc = "none"
    /\ ser = "none"
    /\ log = <<>>
    /\ step_name = "Waiting"
    /\ attempt = 0
    /\ raw = <<>>
    /\ response = NoneResponse
    /\ report = NoReport
    /\ result = "None"
    /\ canvas = <<>>
    /\ bands = <<>>
    /\ band_i = 0
    /\ data = <<>>
    /\ chunk_size = DEFAULT_CHUNK
    /\ send_i = 0
    /\ call = NoCall

Next ==
    \/ main_open
    \/ main_initialize
    \/ wait_loop
    \/ check_status_request
    \/ check_status_read
    \/ check_status_raise
    \/ wait_decide
    \/ wait_sleep
    \/ main_after_init
    \/ main_set_mode
    \/ main_load
    \/ main_load_raise
    \/ main_generate
    \/ main_band_loop
    \/ main_band_header
    \/ safe_send_loop
    \/ safe_send_write
    \/ safe_send_flush
    \/ safe_send_sleep
    \/ safe_send_raise
    \/ main_band_end
    \/ main_trigger
    \/ main_close
    \/ main_raise

Spec == Init /\ [][Next]_vars

\* the steps of one call of wait_for_printer_ready, check_status included
wait_for_printer_ready ==
    \/ wait_loop
    \/ check_status_request
    \/ check_status_read
    \/ check_status_raise
    \/ wait_decide
    \/ wait_sleep

\* the program is single-threaded and every call on the transport returns
\* (reads time out after 5 s), so a call that was entered keeps stepping
LiveSpec == Spec /\ WF_vars(wait_for_printer_ready)

----------------------------------------------------------------------------
(* The encoder on its own: generate_full_bands applied to a canvas *)

InitEnc ==
    /\ pc = "generate"
    /\ exc = "none"
    /\ ser = "none"
    /\ log = <<>>
    /\ step_name = "Waiting"
    /\ attempt = 0
    /\ raw = <<>>
    /\ response = NoneResponse
    /\ report = NoReport
    /\ result = "None"
    /\ canvas \in EncCanvases
    /\ bands = <<>>
    /\ band_i = 0
    /\ data = <<>>
    /\ chunk_size = DEFAULT_CHUNK
    /\ send_i = 0
    /\ call = NoCall

NextEnc == main_generate

SpecEnc == InitEnc /\ [][NextEnc]_vars

----------------------------------------------------------------------------
(* The transmitter on its own: safe_send applied to a buffer *)

Buf(n, seed) == [k \in 1..n |-> (seed + 37 * k) % 256]

SendBuffers == { Buf(n, s) : n \in (0..MaxLen) \cup {100}, s \in {0, 200} }

ChunkSizes == (1..MaxChunk) \cup {DEFAULT_CHUNK}

InitSend ==
    /\ pc = "send_loop"
    /\ exc = "none"
    /\ ser = "open"
    /\ log = <<>>
    /\ step_name = "Waiting"
    /\ attempt = 0
    /\ raw = <<>>
    /\ response = NoneResponse
    /\ report = NoReport
    /\ result = "None"
    /\ canvas = <<>>
    /\ bands = <<>>
    /\ band_i = 0
    /\ data \in SendBuffers
    /\ chunk_size \in ChunkSizes
    /\ send_i = 0
    /\ call = NoCall

NextSend ==
    \/ safe_send_loop
    \/ safe_send_write
    \/ safe_send_flush
    \/ safe_send_sleep
    \/ safe_send_raise

SpecSend == InitSend /\ [][NextSend]_vars

----------------------------------------------------------------------------
(* Single calls: parse_status_byte on a byte, the header code on a width *)

\* largest width below each multiple of 65536 given to the header code
MaxHeaderWidth == 300

HeaderWidths ==
    { 65536 * q + r : q \in 0..2, r \in (0..MaxHeaderWidth) \cup {65535} }
    \ {0}

StatusMaps == << err1_map, err2_map >>

Calls ==
    { [fn |-> "parse_status_byte", arg |-> b, map |-> m, out |-> <<>>,
       done |-> FALSE] : b \in 0..255, m \in 1..2 }
    \cup { [fn |-> "band_header", arg |-> w, map |-> 0, out |-> <<>>,
            done |-> FALSE] : w \in HeaderWidths }

InitCall ==
    /\ pc = "call"
    /\ exc = "none"
    /\ ser = "none"
    /\ log = <<>>
    /\ step_name = "Waiting"
    /\ attempt = 0
    /\ raw = <<>>
    /\ response = NoneResponse
    /\ report = NoReport
    /\ result = "None"
    /\ canvas = <<>>
    /\ bands = <<>>
    /\ band_i = 0
    /\ data = <<>>
    /\ chunk_size = DEFAULT_CHUNK
    /\ send_i = 0
    /\ call \in Calls

\* line 45: one classification of a status byte
call_parse_status_byte ==
    /\ call.fn = "parse_status_byte"
    /\ ~call.done
    /\ call' = [call EXCEPT
                  !.out = parse_status_byte(call.arg, StatusMaps[call.map]),
                  !.done = TRUE]
    /\ UNCHANGED <<pc, exc, ser, log, step_name, attempt, raw, response,
                   report, result, canvas, bands, band_i, data, chunk_size,
                   send_i>>

\* lines 145-149: the header of a band of the given width
call_band_header ==
    /\ call.fn = "band_header"
    /\ ~call.done
    /\ call' = [call EXCEPT !.out = band_header(call.arg), !.done = TRUE]
    /\ UNCHANGED <<pc, exc, ser, log, step_name, attempt, raw, response,
                   report, result, canvas, bands, band_i, data, chunk_size,
                   send_i>>

NextCall ==
    \/ call_parse_status_byte
    \/ call_band_header

SpecCall == InitCall /\ [][NextCall]_vars

----------------------------------------------------------------------------
(* Vocabulary of the properties *)

Rep(x, n) == [k \in 1..n |-> x]

\* a buffer cut into consecutive pieces of c bytes, the last one shorter
RECURSIVE Chunks(_, _)
Chunks(d, c) ==
    IF d = <<>> THEN <<>>
    ELSE IF Len(d) <= c THEN << d >>
    ELSE << SubSeq(d, 1, c) >> \o Chunks(SubSeq(d, c + 1, Len(d)), c)

CeilDiv(n, c) == (n + c - 1) \div c

\* header, data chunks and terminator of bands b..5
RECURSIVE BandGroups(_, _)
BandGroups(bs, b) ==
    IF b > Len(bs) THEN <<>>
    ELSE << <<27, 42, 39, bs[b].width % 256, (bs[b].width \div 256) % 256>> >>
         \o Chunks(bs[b].band_data, 32)
         \o << CMD_CRLF >>
         \o BandGroups(bs, b + 1)

\* number of status requests at the end of a sequence of writes
RECURSIVE TrailingStatus(_)
TrailingStatus(ws) ==
    IF ws = <<>> \/ ws[Len(ws)] # CMD_STATUS THEN 0
    ELSE 1 + TrailingStatus(SubSeq(ws, 1, Len(ws) - 1))

IsStatusWrite(e) == e.op = "write" /\ e.data = CMD_STATUS
StatusCount(l) == Len(SelectSeq(l, IsStatusWrite))

InWait == pc \in {"wait_loop", "status_request", "status_read",
                  "wait_decide", "wait_sleep", "wait_ret"}

\* status requests issued so far by the running call of wait_for_printer_ready
Polls == TrailingStatus(Writes(log))

RawValid == Len(raw) = 32
RawClear == RawValid /\ raw[9] = 0 /\ raw[10] = 0
RawBit(offset, bit) == (raw[offset + 1] \div (2 ^ bit)) % 2 = 1

----------------------------------------------------------------------------
(* C1 *)

\* C1: once the print trigger (the write followed by the 2 s settle delay)
\* has been issued, the writes up to it are the reset, 1..5 status requests,
\* the mode-set, then for band 0..4 in order the header, the band's data in
\* safe_send chunks and the terminator 0D 0A, and then the trigger.
FiveGroupsBeforeTrigger ==
    \A t \in 1..Len(log) :
        log[t] = Sleep(2000) =>
            /\ Len(bands) = 5
            /\ \E k \in 1..5 :
                  Writes(SubSeq(log, 1, t)) =
                      << CMD_INIT >> \o Rep(CMD_STATUS, k) \o << CMD_MODE >>
                      \o BandGroups(bands, 1) \o << CMD_PRINT >>

FiveGroupsWitness ==
    /\ pc = "done"
    /\ Len(canvas[1]) = 11
    /\ \E t \in 1..Len(log) : log[t] = Sleep(2000)

----------------------------------------------------------------------------
(* C2 *)

NotReadyAfterInit ==
    /\ step_name = "After Init"
    /\ result = "False"
    /\ pc \in {"wait_ret", "aborted"}

\* C2: when wait_for_printer_ready has returned False after initialization,
\* only the reset and status requests have been written, and from then on
\* the session stays aborted and nothing more is done on the transport.
AbortWritesNothing ==
    /\ [](NotReadyAfterInit =>
            \E k \in 1..5 : Writes(log) = << CMD_INIT >> \o Rep(CMD_STATUS, k))
    /\ [][NotReadyAfterInit => (log' = log /\ NotReadyAfterInit')]_vars

AbortWitness == pc = "aborted" /\ NotReadyAfterInit

----------------------------------------------------------------------------
(* C3 *)

\* C3: a call of wait_for_printer_ready issues at most 5 status requests;
\* when it returns False without having taken the immediate-abort branch it
\* has issued exactly 5; and a call that was entered is always left.
WaitBounded ==
    /\ [](InWait =>
            /\ Polls <= 5
            /\ (pc = "wait_ret" /\ result = "False"
                   /\ ~(RawValid /\ status_abort(SomeResponse(raw)))
                => Polls = 5))
    /\ ((pc = "wait_loop" /\ attempt = 0) ~> (pc \in {"wait_ret", "crashed"}))

WaitBoundedWitness ==
    /\ pc = "wait_ret"
    /\ result = "False"
    /\ Polls = 5
    /\ RawValid /\ raw[9] = 1

----------------------------------------------------------------------------
(* C4 *)

\* C4: a valid status with bit 3 (mask 0x08) of byte 9 set makes the call
\* return False at once; a valid status without it in which another named
\* error bit is set leads to the retry sleep.
AbortOnRxBufferFull ==
    [][(pc = "wait_decide" /\ RawValid) =>
          /\ RawBit(9, 3) => (pc' = "wait_ret" /\ result' = "False")
          /\ (~RawBit(9, 3) /\ (raw[9] % 8 # 0 \/ raw[10] % 8 # 0))
                => pc' = "wait_sleep"]_vars

----------------------------------------------------------------------------
(* C5 *)

\* C5: a poll whose answer is valid with bytes 8 and 9 zero makes the call
\* return True at once; the call returns True only on such an answer, after
\* 1..5 status requests; and no status request follows the return.
ReadyOnClear ==
    /\ []((pc = "wait_ret" /\ result = "True") =>
            (RawClear /\ Polls \in 1..5))
    /\ [][/\ (pc = "wait_decide" /\ RawClear)
                => (pc' = "wait_ret" /\ result' = "True")
          /\ (pc = "wait_ret" /\ result = "True")
                => StatusCount(log') = StatusCount(log)]_vars

ReadyOnClearWitness ==
    pc = "wait_ret" /\ result = "True" /\ Polls = 3

----------------------------------------------------------------------------
(* C6 *)

\* C6: when the session has ended after the transport was opened, the
\* transport has been closed.
TransportReleased ==
    (pc \in {"done", "aborted", "crashed"} /\ ser # "none") => ser = "closed"

----------------------------------------------------------------------------
(* C7 *)

\* C7: safe_send alternates write, flush, 20 ms sleep; on return it has made
\* ceil(n/c) writes, all of c bytes but the last of 1..c bytes, whose
\* concatenation is the buffer.
ChunkedSend ==
    /\ \A j \in 1..Len(log) :
          /\ j % 3 = 1 => log[j].op = "write"
          /\ j % 3 = 2 => log[j] = Flush
          /\ j % 3 = 0 => log[j] = Sleep(20)
    /\ pc = "send_ret" =>
          LET ws == Writes(log)
              n == Len(data)
              c == chunk_size
          IN  /\ Len(log) = 3 * Len(ws)
              /\ Len(ws) = CeilDiv(n, c)
              /\ \A k \in 1..(Len(ws) - 1) : Len(ws[k]) = c
              /\ Len(ws) > 0 => Len(ws[Len(ws)]) \in 1..c
              /\ Flatten(ws) = data

ChunkedSendWitness ==
    /\ pc = "send_ret"
    /\ Len(data) = 100
    /\ chunk_size = 32
    /\ [k \in 1..Len(Writes(log)) |-> Len(Writes(log)[k])] = <<32, 32, 32, 4>>

----------------------------------------------------------------------------
(* C8 *)

Encoded == pc = "band_loop"

\* C8: for a canvas of 120 rows and W >= 1 columns generate_full_bands
\* returns 5 bands, each of 3W bytes with recorded width W.
FiveBandsOfThreeW ==
    (Encoded /\ Len(canvas) = 120 /\ Len(canvas[1]) >= 1) =>
        /\ Len(bands) = 5
        /\ \A b \in 1..5 :
              /\ Len(bands[b].band_data) = 3 * Len(canvas[1])
              /\ bands[b].width = Len(canvas[1])

FiveBandsWitness ==
    /\ Encoded
    /\ Len(canvas) = 120
    /\ Len(canvas[1]) = 2
    /\ Len(bands) = 5

----------------------------------------------------------------------------
(* C9 *)

ColumnWord(b, x) ==
    bands[b + 1].band_data[3 * x + 1] * 65536
    + bands[b + 1].band_data[3 * x + 2] * 256
    + bands[b + 1].band_data[3 * x + 3]

ColumnTriple(b, x) == SubSeq(bands[b + 1].band_data, 3 * x + 1, 3 * x + 3)

\* C9: bit (23 - r) of the big-endian word of column x of band b is set
\* exactly when canvas[24b + r][x] is 1; a column of 24 ink rows is FF FF FF
\* and a column of 24 background rows is 00 00 00.
RowToBit ==
    (Encoded /\ Len(canvas) >= 120) =>
        \A b \in 0..4 : \A x \in 0..(Len(canvas[1]) - 1) :
            /\ \A k \in 1..3 : ColumnTriple(b, x)[k] \in 0..255
            /\ \A r \in 0..23 :
                  ((ColumnWord(b, x) \div (2 ^ (23 - r))) % 2 = 1)
                      <=> (canvas[24 * b + r + 1][x + 1] = 1)
            /\ (\A r \in 0..23 : canvas[24 * b + r + 1][x + 1] = 1)
                  => ColumnTriple(b, x) = <<255, 255, 255>>
            /\ (\A r \in 0..23 : canvas[24 * b + r + 1][x + 1] = 0)
                  => ColumnTriple(b, x) = <<0, 0, 0>>

\* the 48 x 120 canvas with rows [0,24) ink: band 0 is 48 times FF FF FF and
\* bands 1..4 are 48 times 00 00 00
RowToBitWitness ==
    /\ Encoded
    /\ Len(canvas) = 120
    /\ Len(canvas[1]) = 48
    /\ bands[1].band_data = Rep(255, 144)
    /\ \A b \in 2..5 : bands[b].band_data = Rep(0, 144)

----------------------------------------------------------------------------
(* C10 *)

\* C10: an answer that is not 32 bytes long is returned as None and reported
\* only as incomplete; in wait_for_printer_ready it leads to the 500 ms sleep
\* and, while attempts remain, to the next status request.
InvalidIsTransient ==
    /\ []((pc = "wait_decide" /\ ~RawValid) =>
            /\ response = NoneResponse
            /\ report = [kind |-> "incomplete", len |-> Len(raw),
                         errors |-> <<>>, tape |-> 0])
    /\ [][/\ (pc = "wait_decide" /\ ~RawValid)
                => (pc' = "wait_sleep" /\ result' = result)
          /\ pc = "wait_sleep"
                => /\ log' = Append(log, Sleep(500))
                   /\ pc' = "wait_loop"
                   /\ attempt' = attempt + 1
          /\ (pc = "wait_loop" /\ attempt < 5) => pc' = "status_request"
          /\ pc = "status_request"
                => \/ pc' = "crashed"
                   \/ StatusCount(log') = StatusCount(log) + 1]_vars

InvalidIsTransientWitness ==
    /\ pc = "status_read"
    /\ attempt = 1
    /\ Len(raw) = 31
    /\ response = NoneResponse

----------------------------------------------------------------------------
(* C11 *)

\* C11: a transport exception ends the session at the failing call: the
\* call that raised writes nothing, the session is then in its except block,
\* and no step (no retry, no remaining chunk, no further command) follows.
TransportFailureEnds ==
    /\ [](exc = "SerialException" => pc = "crashed")
    /\ [][(exc' = "SerialException") => (pc' = "crashed" /\ log' = log)]_vars
    /\ [][pc # "crashed"]_vars

\* the second chunk of a 33-byte band failed after the first was sent
TransportFailureWitness ==
    /\ pc = "crashed"
    /\ exc = "SerialException"
    /\ Len(data) = 33
    /\ send_i = 32
    /\ Len(log[Len(log)].data) = 0
    /\ Len(Writes(log)[Len(Writes(log))]) = 32

----------------------------------------------------------------------------
(* C12 *)

\* C12: when the image fails to load, nothing has been written to the
\* transport.
ImageFailsBeforeProtocol ==
    exc = "ImageError" => Writes(log) = <<>>

----------------------------------------------------------------------------
(* C13 *)

\* the header step of main's band loop, when the write does not raise
HeaderStep == pc = "band_header" /\ pc' # "crashed"

\* C13 as stated: the header is the bytes 1B 2A 39 (hexadecimal, 39 hex is
\* 57) followed by the low and the high byte of the band width.
HeaderIsHex39 ==
    [][HeaderStep =>
          log' = Append(log, Write(<< 27, 42, 57,
                                      bands[band_i + 1].width % 256,
                                      (bands[band_i + 1].width \div 256) % 256 >>))]_vars

\* C13 amended: the header is the bytes 1B 2A 27 (hexadecimal; the third
\* byte is decimal 39) followed by the low and the high byte of the width.
HeaderIsDecimal39 ==
    [][HeaderStep =>
          log' = Append(log, Write(<< 27, 42, 39,
                                      bands[band_i + 1].width % 256,
                                      (bands[band_i + 1].width \div 256) % 256 >>))]_vars

\* the header of the last band of an 11-column canvas has just been written
HeaderWitness ==
    /\ pc = "send_loop"
    /\ send_i = 0
    /\ band_i = 4
    /\ log[Len(log)] = Write(<<27, 42, 39, 11, 0>>)

----------------------------------------------------------------------------
(* C14 *)

BitSet(v, bit) == (v \div (2 ^ bit)) % 2 = 1

SeqRange(q) == { q[k] : k \in 1..Len(q) }

\* C14: parse_status_byte returns, without repetition, exactly the names of
\* the map whose bit is set in the byte; bits without a name add nothing.
ClassifyExact ==
    (call.fn = "parse_status_byte" /\ call.done) =>
        LET mapping == StatusMaps[call.map]
        IN  /\ \A k \in 1..Len(mapping) :
                  (mapping[k][2] \in SeqRange(call.out))
                      <=> BitSet(call.arg, mapping[k][1])
            /\ SeqRange(call.out) \subseteq
                  { mapping[k][2] : k \in 1..Len(mapping) }
            /\ Cardinality(SeqRange(call.out)) = Len(call.out)

\* error-class-1 = 0x01 gives exactly "NO TAPE"
ClassifyWitness ==
    /\ call.fn = "parse_status_byte"
    /\ call.done
    /\ call.map = 1
    /\ call.arg = 1
    /\ call.out = << "NO TAPE" >>

----------------------------------------------------------------------------
(* C15 *)

\* status requests written after the settle delay that follows the trigger
StatusAfterTrigger ==
    IF \E t \in 1..Len(log) : log[t] = Sleep(2000)
    THEN LET t == CHOOSE i \in 1..Len(log) : log[i] = Sleep(2000)
         IN  StatusCount(SubSeq(log, t + 1, Len(log)))
    ELSE 0

\* C15 as stated: at most one status request is written after the trigger.
AtMostOneFinalPoll == StatusAfterTrigger <= 1

\* C15 amended: after the trigger at most five status requests are written,
\* and when the transport is released between one and five have been.
FinalPollsOneToFive ==
    /\ StatusAfterTrigger <= 5
    /\ pc = "done" =>
          /\ StatusAfterTrigger \in 1..5
          /\ log[Len(log)] = Close

FinalPollsWitness ==
    /\ pc = "done"
    /\ StatusAfterTrigger = 5

----------------------------------------------------------------------------
(* C16 *)

\* C16: for a canvas whose rows are empty (width 0) generate_full_bands does
\* not return: no bands, with empty buffers or otherwise, are produced.
WidthZeroRejected ==
    (Len(canvas) > 0 /\ Len(canvas[1]) = 0) => (~Encoded /\ bands = <<>>)

----------------------------------------------------------------------------
(* C17 *)

\* the canvas cut or padded with background rows to 120 rows
Normalised(cv) ==
    IF Len(cv) >= 120 THEN SubSeq(cv, 1, 120)
    ELSE cv \o [r \in 1..(120 - Len(cv)) |-> [c \in 1..Len(cv[1]) |-> 0]]

\* C17: for a canvas of H >= 1 rows and W >= 1 columns the result is 5 bands,
\* the same as for the canvas normalised to 120 rows: bit (23 - r) of column
\* x of band b is set exactly when row 24b + r exists and holds ink there.
HeightNormalised ==
    (Encoded /\ Len(canvas) >= 1 /\ Len(canvas[1]) >= 1) =>
        /\ Len(bands) = 5
        /\ \A b \in 0..4 : \A x \in 0..(Len(canvas[1]) - 1) :
              \A r \in 0..23 :
                  BitSet(ColumnWord(b, x), 23 - r)
                      <=> /\ 24 * b + r < Len(canvas)
                          /\ canvas[24 * b + r + 1][x + 1] = 1
        /\ bands = generate_full_bands(Normalised(canvas))

\* a canvas of 121 rows whose only ink is in row 120
HeightNormalisedWitness ==
    /\ Encoded
    /\ Len(canvas) = 121
    /\ Len(canvas[1]) = 2
    /\ canvas[121][2] = 1
    /\ \A b \in 1..5 : bands[b].band_data = Rep(0, 6)

----------------------------------------------------------------------------
(* C18 *)

IsModeSet(w) == Len(w) = 4 /\ SubSeq(w, 1, 3) = <<27, 105, 77>>

IsSettle(e) == e = Sleep(2000)

\* the byte strings written by the step being taken
NewWrites == Writes(SubSeq(log', Len(log) + 1, Len(log')))

\* C18: the mode-set is written once, right after the Ready result and
\* before any band header, with flag 00; the trigger is written once, as the
\* byte 0C; no command 1A and no other mode-set is ever written (band data
\* written by safe_send is not a command).
PrintOnly ==
    /\ [](/\ (pc \in {"open", "initialize", "set_mode", "aborted"}
                \/ (InWait /\ step_name = "After Init"))
             => \A k \in 1..Len(Writes(log)) : ~IsModeSet(Writes(log)[k])
          /\ pc \in {"load", "generate"}
             => /\ result = "True"
                /\ \E k \in 1..5 :
                      Writes(log) = << CMD_INIT >> \o Rep(CMD_STATUS, k)
                                    \o << CMD_MODE >>
          /\ Len(SelectSeq(log, IsSettle)) <= 1
          /\ pc = "done" => Len(SelectSeq(log, IsSettle)) = 1
          /\ \A t \in 1..Len(log) :
                log[t] = Sleep(2000) => (t > 1 /\ log[t - 1] = Write(<<12>>)))
    /\ [][/\ pc # "send_write" =>
                \A k \in 1..Len(NewWrites) :
                    /\ NewWrites[k] # <<26>>
                    /\ IsModeSet(NewWrites[k])
                          => (pc = "set_mode" /\ NewWrites[k] = CMD_MODE)
                    /\ NewWrites[k] = <<12>> => pc = "trigger"
          /\ pc' = "set_mode"
                => (pc = "wait_ret" /\ step_name = "After Init"
                    /\ result = "True")
          /\ pc' = "trigger" => (pc = "band_loop" /\ band_i = 5)]_vars

PrintOnlyWitness ==
    /\ pc = "done"
    /\ Len(SelectSeq(log, IsSettle)) = 1
    /\ Cardinality({k \in 1..Len(Writes(log)) : Writes(log)[k] = CMD_MODE}) = 1

----------------------------------------------------------------------------
(* C19 *)

\* C19: the width bytes n1, n2 of the header satisfy n1 + 256 n2 = width for
\* widths 1..65535; from 65536 on they announce width mod 65536, which is
\* not the width.
HeaderWidthWraps ==
    (call.fn = "band_header" /\ call.done) =>
        /\ Len(call.out) = 5
        /\ call.out[4] \in 0..255
        /\ call.out[5] \in 0..255
        /\ call.out[4] + 256 * call.out[5] = call.arg % 65536
        /\ call.arg \in 1..65535 => call.out[4] + 256 * call.out[5] = call.arg
        /\ call.arg >= 65536 => call.out[4] + 256 * call.out[5] # call.arg

\* width 65836 is announced as 300: low byte 2C, high byte 01
HeaderWidthWitness ==
    /\ call.fn = "band_header"
    /\ call.done
    /\ call.arg = 65536 + 300
    /\ call.out = <<27, 42, 39, 44, 1>>

----------------------------------------------------------------------------
(* C20 *)

\* a valid answer whose error bytes have only bits without a name set
UnnamedOnly ==
    /\ RawValid
    /\ raw[9] % 8 = 0
    /\ raw[10] % 16 = 0
    /\ (raw[9] # 0 \/ raw[10] # 0)

\* C20: such an answer is reported with an empty error list, sends
\* wait_for_printer_ready to the retry sleep, and when the call returns with
\* it as the last answer the result is False after 5 status requests.
UnnamedBitsNotReady ==
    /\ [](UnnamedOnly => (report.kind = "status" /\ report.errors = <<>>))
    /\ []((pc = "wait_ret" /\ UnnamedOnly) => (result = "False" /\ Polls = 5))
    /\ [][(pc = "wait_decide" /\ UnnamedOnly)
            => (pc' = "wait_sleep" /\ result' = result)]_vars

UnnamedBitsWitness ==
    /\ pc = "wait_ret"
    /\ UnnamedOnly
    /\ raw[9] = 248
    /\ raw[10] = 240
    /\ report.errors = <<>>
    /\ result = "False"
    /\ Polls = 5

====
